---- MODULE Spec2Model ----
(***************************************************************************)
(* Users CRUD service (src/routers/api.py): an insertion-ordered map       *)
(* `users` from id to User, the counter `next_id`, and the five request    *)
(* handlers create_user, list_users, get_user, update_user, delete_user.   *)
(*                                                                         *)
(* Spec         one request at a time, every action one whole handler      *)
(*              called with a validated payload                            *)
(* SpecHttp     one request at a time as it arrives: validation            *)
(*              (src/schemas.py, Path(ge=1)), then the handler             *)
(* SpecFreeing  Spec, remembering the email a record gave up last          *)
(* SpecThreads  create, update and delete overlapping on worker threads,   *)
(*              every action one statement of one handler                  *)
(***************************************************************************)
EXTENDS Integers, Sequences, FiniteSets, TLC

\* ---------------------------------------------------------------- bounds
MaxId == 3          \* creates stop succeeding once next_id exceeds MaxId
NumNames == 2       \* number of distinct valid names in requests
NumEmails == 3      \* number of distinct valid emails in requests
NumThreads == 2     \* worker threads handling requests at the same time
MaxRequests == 2    \* requests a worker thread takes in a run

Threads == 1..NumThreads

Names == {"n" \o ToString(i) : i \in 1..NumNames}
Emails == {"e" \o ToString(i) \o "@example.com" : i \in 1..NumEmails}
UserIds == 1..MaxId

\* ------------------------------------------------------------- data model
\* Python's None: an absent field of UserUpdate, an absent body.
None == "None"

\* schemas.User
User(id, name, email) == [id |-> id, name |-> name, email |-> email]

\* None where a User is expected: a failed lookup, a response without a user
NoUser == User(0, None, None)

VARIABLES
    users,      \* database.users: dict id -> User, as the sequence of its
                \* items <<key, value>> in insertion order
    next_id,    \* database.next_id
    resp,       \* the last request and its response
    before,     \* history: database.users as the last request found it
    assigned,   \* history: ids returned by successful creates, in order
    deleted,    \* history: ids of the records deleted so far
    freed,      \* history: the email a record gave up last, by delete or update
    http,       \* history: the last HTTP request as it arrived, unvalidated
    threads     \* the worker threads: the request in hand, its position, locals

vars == <<users, next_id, resp, before, assigned, deleted, freed, http, threads>>

\* ------------------------------------------------------ request validation
\* a name of exactly 100 characters, and one of 101
Name100 == "abcdefghijabcdefghijabcdefghijabcdefghijabcdefghijabcdefghijabcdefghijabcdefghijabcdefghijabcdefghij"
Name101 == Name100 \o "k"

\* what may arrive in a request: a field may be missing (None), a name empty
\* or of any length, an email malformed, an id below 1
RawNames == {None, "", "n1", Name100, Name101}
RawEmails == Emails \cup {None, "not-an-email"}
RawIds == 0..MaxId

\* Field(min_length=1) forgotten
ValidName_NoMin(name) == Len(name) <= 100

\* Field(min_length=1, max_length=100)
ValidName(name) == Len(name) >= 1 /\ Len(name) <= 100

\* EmailStr: the well-formed addresses
ValidEmail(email) == email \in Emails

\* Path(..., ge=1)
ValidId(user_id) == user_id >= 1

\* UserCreate: both fields required
ValidUserCreate(name, email) ==
    /\ name # None /\ ValidName(name)
    /\ email # None /\ ValidEmail(email)

\* UserUpdate: both fields optional, None when absent
ValidUserUpdate(name, email) ==
    /\ name = None \/ ValidName(name)
    /\ email = None \/ ValidEmail(email)

\* --------------------------------------------------- dict (insertion order)
DictKeys(d) == {d[i].key : i \in 1..Len(d)}

\* d.get(k): the value, or NoUser (None as a value of the User type)
DictGet(d, k) ==
    IF k \in DictKeys(d)
    THEN d[CHOOSE i \in 1..Len(d) : d[i].key = k].val
    ELSE NoUser

\* d.values(): the values in insertion order
DictValues(d) == [i \in 1..Len(d) |-> d[i].val]

\* d[k] = v moved to the end on overwrite (not what a dict does)
DictSetMoveToEnd(d, k, v) ==
    Append(SelectSeq(d, LAMBDA it : it.key # k), [key |-> k, val |-> v])

\* d[k] = v that never looks for an existing key
DictSetAlwaysAppend(d, k, v) == Append(d, [key |-> k, val |-> v])

\* d[k] = v: a new key is appended, an existing key keeps its position
DictSet(d, k, v) ==
    IF k \in DictKeys(d)
    THEN [i \in 1..Len(d) |-> IF d[i].key = k THEN [key |-> k, val |-> v] ELSE d[i]]
    ELSE Append(d, [key |-> k, val |-> v])

\* del d[k] done by moving the last item into the freed slot
DictDelSwapLast(d, k) ==
    LET i == CHOOSE j \in 1..Len(d) : d[j].key = k
    IN  IF k \notin DictKeys(d) THEN d
        ELSE [j \in 1..(Len(d) - 1) |-> IF j = i THEN d[Len(d)] ELSE d[j]]

\* del d[k] that keeps the item as a tombstone under key 0
DictDelSoft(d, k) ==
    [i \in 1..Len(d) |-> IF d[i].key = k THEN [key |-> 0, val |-> d[i].val] ELSE d[i]]

\* del d[k]: the remaining items keep their order
DictDel(d, k) == SelectSeq(d, LAMBDA it : it.key # k)

\* any(u.email == email for u in users.values())
EmailTaken(d, email) == \E i \in 1..Len(d) : DictValues(d)[i].email = email

\* --------------------------------------------------------------- handlers
\* What a handler leaves behind: the store, the counter and the response.
Result(d, nid, status, detail, user, list) ==
    [users |-> d, next_id |-> nid, status |-> status, detail |-> detail,
     user |-> user, list |-> list]

\* raise HTTPException(status_code, detail): nothing is written
HTTPException(d, nid, status, detail) == Result(d, nid, status, detail, NoUser, <<>>)

\* create_user without the uniqueness check
create_user_NoCheck(d, nid, name, email) ==
    LET user == User(nid, name, email)
    IN  Result(DictSet(d, nid, user), nid + 1, 201, "", user, <<>>)

\* create_user that forgets to advance the counter
create_user_NoIncrement(d, nid, name, email) ==
    IF EmailTaken(d, email)
    THEN HTTPException(d, nid, 400, "Email already exists")
    ELSE LET user == User(nid, name, email)
         IN  Result(DictSet(d, nid, user), nid, 201, "", user, <<>>)

\* create_user that advances the counter before the uniqueness check
create_user_CountsFailed(d, nid, name, email) ==
    IF EmailTaken(d, email)
    THEN HTTPException(d, nid + 1, 400, "Email already exists")
    ELSE LET user == User(nid, name, email)
         IN  Result(DictSet(d, nid, user), nid + 1, 201, "", user, <<>>)

\* create_user that advances the counter before storing the record
create_user_StoresAfterIncrement(d, nid, name, email) ==
    IF EmailTaken(d, email)
    THEN HTTPException(d, nid, 400, "Email already exists")
    ELSE LET user == User(nid, name, email)
         IN  Result(DictSet(d, nid + 1, user), nid + 1, 201, "", user, <<>>)

\* POST /users
create_user(d, nid, name, email) ==
    IF EmailTaken(d, email)
    THEN HTTPException(d, nid, 400, "Email already exists")
    ELSE LET user == User(nid, name, email)
         IN  Result(DictSet(d, nid, user), nid + 1, 201, "", user, <<>>)

\* GET /users
list_users(d, nid) == Result(d, nid, 200, "", NoUser, DictValues(d))

\* get_user that looks the record up with users.pop(user_id, None)
get_user_Pop(d, nid, user_id) ==
    LET user == DictGet(d, user_id)
    IN  IF user = NoUser
        THEN HTTPException(d, nid, 404, "User not found")
        ELSE Result(DictDel(d, user_id), nid, 200, "", user, <<>>)

\* GET /users/{user_id}
get_user(d, nid, user_id) ==
    LET user == DictGet(d, user_id)
    IN  IF user = NoUser
        THEN HTTPException(d, nid, 404, "User not found")
        ELSE Result(d, nid, 200, "", user, <<>>)

\* update_user without the "new_email != user.email" half of the check
update_user_NoSelfMatch(d, nid, user_id, name, email) ==
    LET user == DictGet(d, user_id)
    IN  IF user = NoUser
        THEN HTTPException(d, nid, 404, "User not found")
        ELSE LET new_name  == IF name # None THEN name ELSE user.name
                 new_email == IF email # None THEN email ELSE user.email
             IN  IF EmailTaken(d, new_email)
                 THEN HTTPException(d, nid, 400, "Email already exists")
                 ELSE LET updated == User(user_id, new_name, new_email)
                      IN  Result(DictSet(d, user_id, updated), nid, 200, "", updated, <<>>)

\* update_user that stores the new name before the uniqueness check
update_user_NameFirst(d, nid, user_id, name, email) ==
    LET user == DictGet(d, user_id)
    IN  IF user = NoUser
        THEN HTTPException(d, nid, 404, "User not found")
        ELSE LET new_name  == IF name # None THEN name ELSE user.name
                 new_email == IF email # None THEN email ELSE user.email
                 renamed   == DictSet(d, user_id, User(user_id, new_name, user.email))
             IN  IF new_email # user.email /\ EmailTaken(d, new_email)
                 THEN HTTPException(renamed, nid, 400, "Email already exists")
                 ELSE LET updated == User(user_id, new_name, new_email)
                      IN  Result(DictSet(d, user_id, updated), nid, 200, "", updated, <<>>)

\* update_user that stores the payload as it came, absent fields included
update_user_NoInherit(d, nid, user_id, name, email) ==
    LET user == DictGet(d, user_id)
    IN  IF user = NoUser
        THEN HTTPException(d, nid, 404, "User not found")
        ELSE LET new_name  == name
                 new_email == IF email # None THEN email ELSE user.email
             IN  IF new_email # user.email /\ EmailTaken(d, new_email)
                 THEN HTTPException(d, nid, 400, "Email already exists")
                 ELSE LET updated == User(user_id, new_name, new_email)
                      IN  Result(DictSet(d, user_id, updated), nid, 200, "", updated, <<>>)

\* update_user that checks uniqueness before it looks the record up
update_user_CheckFirst(d, nid, user_id, name, email) ==
    LET user == DictGet(d, user_id)
    IN  IF email # None /\ email # user.email /\ EmailTaken(d, email)
        THEN HTTPException(d, nid, 400, "Email already exists")
        ELSE IF user = NoUser
        THEN HTTPException(d, nid, 404, "User not found")
        ELSE LET new_name  == IF name # None THEN name ELSE user.name
                 new_email == IF email # None THEN email ELSE user.email
                 updated   == User(user_id, new_name, new_email)
             IN  Result(DictSet(d, user_id, updated), nid, 200, "", updated, <<>>)

\* PUT /users/{user_id}; name, email: the payload's fields, None when absent
update_user(d, nid, user_id, name, email) ==
    LET user == DictGet(d, user_id)
    IN  IF user = NoUser
        THEN HTTPException(d, nid, 404, "User not found")
        ELSE LET new_name  == IF name # None THEN name ELSE user.name
                 new_email == IF email # None THEN email ELSE user.email
             IN  IF new_email # user.email /\ EmailTaken(d, new_email)
                 THEN HTTPException(d, nid, 400, "Email already exists")
                 ELSE LET updated == User(user_id, new_name, new_email)
                      IN  Result(DictSet(d, user_id, updated), nid, 200, "", updated, <<>>)

\* delete_user that answers 204 without removing the record
delete_user_NoDelete(d, nid, user_id) ==
    IF user_id \notin DictKeys(d)
    THEN HTTPException(d, nid, 404, "User not found")
    ELSE Result(d, nid, 204, "", NoUser, <<>>)

\* delete_user that treats a missing record as already deleted
delete_user_Idempotent(d, nid, user_id) ==
    Result(DictDel(d, user_id), nid, 204, "", NoUser, <<>>)

\* DELETE /users/{user_id}
delete_user(d, nid, user_id) ==
    IF user_id \notin DictKeys(d)
    THEN HTTPException(d, nid, 404, "User not found")
    ELSE Result(DictDel(d, user_id), nid, 204, "", NoUser, <<>>)

\* ------------------------------------------------------ the state machine
\* the request a response answers
Request(op, user_id, name, email) ==
    [op |-> op, id |-> user_id, name |-> name, email |-> email]

\* the last request together with the handler's response
Response(req, r) ==
    [op |-> req.op, id |-> req.id, name |-> req.name, email |-> req.email,
     status |-> r.status, detail |-> r.detail, user |-> r.user, list |-> r.list]

\* the request as it arrived
Http(route, user_id, name, email) ==
    [route |-> route, id |-> user_id, name |-> name, email |-> email]

\* an idle worker thread: no request in hand
Idle == [pc |-> "idle", id |-> 0, name |-> None, email |-> None,
         user |-> NoUser, tmp |-> 0, checked |-> None, left |-> MaxRequests]

\* process start: empty store, counter at 1, nothing answered yet
Init ==
    /\ users = <<>>
    /\ next_id = 1
    /\ resp = Response(Request("none", 0, None, None),
                       Result(<<>>, 1, 0, "", NoUser, <<>>))
    /\ before = <<>>
    /\ assigned = <<>>
    /\ deleted = {}
    /\ freed = None
    /\ http = Http("none", 0, None, None)
    /\ threads = [t \in Threads |-> Idle]

\* create_user called with a validated payload
Create(name, email) ==
    LET r == create_user(users, next_id, name, email)
    IN  /\ r.next_id <= MaxId + 1
        /\ users' = r.users
        /\ next_id' = r.next_id
        /\ before' = users
        /\ resp' = Response(Request("create", 0, name, email), r)
        /\ assigned' = IF r.status = 201 THEN Append(assigned, r.user.id)
                                         ELSE assigned
        /\ UNCHANGED deleted

\* list_users called
List ==
    LET r == list_users(users, next_id)
    IN  /\ users' = r.users
        /\ next_id' = r.next_id
        /\ before' = users
        /\ resp' = Response(Request("list", 0, None, None), r)
        /\ UNCHANGED <<assigned, deleted>>

\* get_user called with a validated id
Get(user_id) ==
    LET r == get_user(users, next_id, user_id)
    IN  /\ users' = r.users
        /\ next_id' = r.next_id
        /\ before' = users
        /\ resp' = Response(Request("get", user_id, None, None), r)
        /\ UNCHANGED <<assigned, deleted>>

\* update_user called with a validated id and payload
Update(user_id, name, email) ==
    LET r == update_user(users, next_id, user_id, name, email)
    IN  /\ users' = r.users
        /\ next_id' = r.next_id
        /\ before' = users
        /\ resp' = Response(Request("update", user_id, name, email), r)
        /\ UNCHANGED <<assigned, deleted>>

\* delete_user called with a validated id
Delete(user_id) ==
    LET r == delete_user(users, next_id, user_id)
    IN  /\ users' = r.users
        /\ next_id' = r.next_id
        /\ before' = users
        /\ resp' = Response(Request("delete", user_id, None, None), r)
        /\ deleted' = IF r.status = 204 THEN deleted \cup {user_id} ELSE deleted
        /\ UNCHANGED assigned

\* ---- one request at a time, valid payloads
CreateUser ==
    \E name \in Names, email \in Emails :
        Create(name, email) /\ UNCHANGED <<freed, http, threads>>

ListUsers == List /\ UNCHANGED <<freed, http, threads>>

GetUser ==
    \E user_id \in UserIds :
        Get(user_id) /\ UNCHANGED <<freed, http, threads>>

UpdateUser ==
    \E user_id \in UserIds, name \in Names \cup {None}, email \in Emails \cup {None} :
        Update(user_id, name, email) /\ UNCHANGED <<freed, http, threads>>

DeleteUser ==
    \E user_id \in UserIds :
        Delete(user_id) /\ UNCHANGED <<freed, http, threads>>

Next == CreateUser \/ ListUsers \/ GetUser \/ UpdateUser \/ DeleteUser

Spec == Init /\ [][Next]_vars

\* ---- one request at a time, as it arrives over HTTP
\* the request is refused with 422 and no handler is called
Reject ==
    /\ before' = users
    /\ resp' = Response(Request("none", 0, None, None),
                        Result(users, next_id, 422, "validation error", NoUser, <<>>))
    /\ UNCHANGED <<users, next_id, assigned, deleted>>

PostUsers ==
    \E name \in RawNames, email \in RawEmails :
        /\ http' = Http("POST /users", 0, name, email)
        /\ IF ValidUserCreate(name, email) THEN Create(name, email) ELSE Reject
        /\ UNCHANGED <<freed, threads>>

GetUsers ==
    /\ http' = Http("GET /users", 0, None, None)
    /\ List
    /\ UNCHANGED <<freed, threads>>

GetUserById ==
    \E user_id \in RawIds :
        /\ http' = Http("GET /users/{user_id}", user_id, None, None)
        /\ IF ValidId(user_id) THEN Get(user_id) ELSE Reject
        /\ UNCHANGED <<freed, threads>>

PutUser ==
    \E user_id \in RawIds, name \in RawNames, email \in RawEmails :
        /\ http' = Http("PUT /users/{user_id}", user_id, name, email)
        /\ IF ValidId(user_id) /\ ValidUserUpdate(name, email)
           THEN Update(user_id, name, email)
           ELSE Reject
        /\ UNCHANGED <<freed, threads>>

DeleteUserById ==
    \E user_id \in RawIds :
        /\ http' = Http("DELETE /users/{user_id}", user_id, None, None)
        /\ IF ValidId(user_id) THEN Delete(user_id) ELSE Reject
        /\ UNCHANGED <<freed, threads>>

NextHttp == PostUsers \/ GetUsers \/ GetUserById \/ PutUser \/ DeleteUserById

SpecHttp == Init /\ [][NextHttp]_vars

\* ---- the same, remembering the email a record gave up last
\* the email of record user_id when the step removes or replaces it
GivenUp(user_id) ==
    LET old == DictGet(users, user_id)
        new == DictGet(users', user_id)
    IN  IF old # NoUser /\ new.email # old.email THEN old.email ELSE freed

UpdateUserFreeing ==
    \E user_id \in UserIds, name \in Names \cup {None}, email \in Emails \cup {None} :
        /\ Update(user_id, name, email)
        /\ freed' = GivenUp(user_id)
        /\ UNCHANGED <<http, threads>>

DeleteUserFreeing ==
    \E user_id \in UserIds :
        /\ Delete(user_id)
        /\ freed' = GivenUp(user_id)
        /\ UNCHANGED <<http, threads>>

NextFreeing ==
    CreateUser \/ ListUsers \/ GetUser \/ UpdateUserFreeing \/ DeleteUserFreeing

SpecFreeing == Init /\ [][NextFreeing]_vars

\* ---- overlapping requests: the handlers are plain functions that the
\* framework runs on worker threads, and nothing in them takes a lock, so a
\* thread may be switched out between any two of a handler's statements.
\* Every action is one statement of one thread; a thread's first statement is
\* taken together with the arrival of its request.

\* the names in overlapping requests: one is enough, no check reads a name
ThreadNames == {"n1"}

\* thread t answers: the response is recorded, the thread is idle again
Return(t, req, r) ==
    /\ resp' = Response(req, r)
    /\ threads' = [threads EXCEPT ![t] = [Idle EXCEPT !.left = threads[t].left]]

\* thread t goes on to statement pc with its locals set
Goto(t, pc, locals) ==
    threads' = [threads EXCEPT ![t] = [locals EXCEPT !.pc = pc]]

\* thread t takes a request
Take(t) == [threads[t] EXCEPT !.left = @ - 1]

\* create_user, line 53-54: the uniqueness check
CreateCheck(t) ==
    \E name \in ThreadNames, email \in Emails :
        /\ threads[t].pc = "idle" /\ threads[t].left > 0
        /\ next_id <= MaxId
        /\ IF EmailTaken(users, email)
           THEN /\ threads' = [threads EXCEPT ![t] = Take(t)]
                /\ resp' = Response(Request("create", 0, name, email),
                                    HTTPException(users, next_id, 400, "Email already exists"))
           ELSE /\ Goto(t, "c_build", [Take(t) EXCEPT !.name = name, !.email = email,
                                                      !.checked = email])
                /\ UNCHANGED resp
        /\ UNCHANGED <<users, next_id, before, assigned, deleted, freed, http>>

\* create_user, line 56: user = User(id=database.next_id, ...)
CreateBuild(t) ==
    /\ threads[t].pc = "c_build"
    /\ Goto(t, "c_store", [threads[t] EXCEPT
                               !.user = User(next_id, threads[t].name, threads[t].email)])
    /\ UNCHANGED <<users, next_id, resp, before, assigned, deleted, freed, http>>

\* create_user, line 57: users[database.next_id] = user
CreateStore(t) ==
    /\ threads[t].pc = "c_store"
    /\ users' = DictSet(users, next_id, threads[t].user)
    /\ Goto(t, "c_load", [threads[t] EXCEPT !.checked = None])
    /\ UNCHANGED <<next_id, resp, before, assigned, deleted, freed, http>>

\* create_user, line 58: database.next_id += 1, the read
CreateLoad(t) ==
    /\ threads[t].pc = "c_load"
    /\ Goto(t, "c_inc", [threads[t] EXCEPT !.tmp = next_id])
    /\ UNCHANGED <<users, next_id, resp, before, assigned, deleted, freed, http>>

\* create_user, line 58-59: database.next_id += 1, the write; return user
CreateInc(t) ==
    /\ threads[t].pc = "c_inc"
    /\ next_id' = threads[t].tmp + 1
    /\ assigned' = Append(assigned, threads[t].user.id)
    /\ Return(t, Request("create", 0, threads[t].name, threads[t].email),
              Result(users, next_id', 201, "", threads[t].user, <<>>))
    /\ UNCHANGED <<users, before, deleted, freed, http>>

\* update_user, line 183-185: user = users.get(user_id)
UpdateGet(t) ==
    \E user_id \in UserIds, name \in ThreadNames \cup {None}, email \in Emails \cup {None} :
        /\ threads[t].pc = "idle" /\ threads[t].left > 0
        /\ IF DictGet(users, user_id) = NoUser
           THEN /\ threads' = [threads EXCEPT ![t] = Take(t)]
                /\ resp' = Response(Request("update", user_id, name, email),
                                    HTTPException(users, next_id, 404, "User not found"))
           ELSE /\ Goto(t, "u_check", [Take(t) EXCEPT !.id = user_id, !.name = name,
                                                      !.email = email,
                                                      !.user = DictGet(users, user_id)])
                /\ UNCHANGED resp
        /\ UNCHANGED <<users, next_id, before, assigned, deleted, freed, http>>

\* update_user, line 187-193: resolve the fields, the uniqueness check,
\* updated = User(...)
UpdateCheck(t) ==
    LET th        == threads[t]
        new_name  == IF th.name # None THEN th.name ELSE th.user.name
        new_email == IF th.email # None THEN th.email ELSE th.user.email
    IN  /\ th.pc = "u_check"
        /\ IF new_email # th.user.email /\ EmailTaken(users, new_email)
           THEN Return(t, Request("update", th.id, th.name, th.email),
                       HTTPException(users, next_id, 400, "Email already exists"))
           ELSE /\ Goto(t, "u_store",
                        [th EXCEPT !.user = User(th.id, new_name, new_email),
                                   !.checked = IF new_email # th.user.email
                                               THEN new_email ELSE None])
                /\ UNCHANGED resp
        /\ UNCHANGED <<users, next_id, before, assigned, deleted, freed, http>>

\* update_user, line 194-195: users[user_id] = updated; return updated
UpdateStore(t) ==
    LET th == threads[t]
    IN  /\ th.pc = "u_store"
        /\ users' = DictSet(users, th.id, th.user)
        /\ Return(t, Request("update", th.id, th.name, th.email),
                  Result(users', next_id, 200, "", th.user, <<>>))
        /\ UNCHANGED <<next_id, before, assigned, deleted, freed, http>>

\* delete_user, line 222-223: if user_id not in users
DeleteCheck(t) ==
    \E user_id \in UserIds :
        /\ threads[t].pc = "idle" /\ threads[t].left > 0
        /\ IF user_id \notin DictKeys(users)
           THEN /\ threads' = [threads EXCEPT ![t] = Take(t)]
                /\ resp' = Response(Request("delete", user_id, None, None),
                                    HTTPException(users, next_id, 404, "User not found"))
           ELSE /\ Goto(t, "d_del", [Take(t) EXCEPT !.id = user_id])
                /\ UNCHANGED resp
        /\ UNCHANGED <<users, next_id, before, assigned, deleted, freed, http>>

\* delete_user, line 224-225: del users[user_id], a KeyError (answered 500)
\* when another thread removed the key in between
DeleteDel(t) ==
    LET th == threads[t]
    IN  /\ th.pc = "d_del"
        /\ IF th.id \in DictKeys(users)
           THEN /\ users' = DictDel(users, th.id)
                /\ deleted' = deleted \cup {th.id}
                /\ Return(t, Request("delete", th.id, None, None),
                          Result(users', next_id, 204, "", NoUser, <<>>))
           ELSE /\ UNCHANGED <<users, deleted>>
                /\ Return(t, Request("delete", th.id, None, None),
                          HTTPException(users, next_id, 500, "Internal Server Error"))
        /\ UNCHANGED <<next_id, before, assigned, freed, http>>

NextThreads ==
    \E t \in Threads :
        \/ CreateCheck(t) \/ CreateBuild(t) \/ CreateStore(t)
        \/ CreateLoad(t) \/ CreateInc(t)
        \/ UpdateGet(t) \/ UpdateCheck(t) \/ UpdateStore(t)
        \/ DeleteCheck(t) \/ DeleteDel(t)

SpecThreads == Init /\ [][NextThreads]_vars

\* the ids get_user finds a record for
Live(d, nid) == {id \in UserIds : get_user(d, nid, id).status = 200}

\* the ids of the records list_users returns
Listed(d, nid) ==
    LET list == list_users(d, nid).list
    IN  {list[i].id : i \in 1..Len(list)}

\* ------------------------------------------------------------------ claims
\* C1: in every reachable state no two live records have the same email.
C1_EmailUnique ==
    \A i, j \in 1..Len(users) :
        i # j => users[i].val.email # users[j].val.email

\* C1 case: two live records, the last request an update that set an email.
C1_Witness ==
    /\ Len(users) >= 2
    /\ deleted # {}
    /\ resp.op = "update" /\ resp.status = 200 /\ resp.email # None

\* C2: the ids returned by successful creates are strictly increasing, so no
\* id is assigned twice, whatever deletes or failed creates came in between.
C2_IdsStrictlyIncreasing ==
    \A i, j \in 1..Len(assigned) : i < j => assigned[i] < assigned[j]

\* C2 case: a create succeeds after an earlier record was deleted.
C2_Witness ==
    /\ resp.op = "create" /\ resp.status = 201
    /\ Len(assigned) >= 2
    /\ deleted # {}

\* C3: a create whose email is held by a live record fails with 400 "Email
\* already exists" and changes neither the store nor the id counter.
C3_DuplicateCreateRejected ==
    [][(resp'.op = "create" /\ EmailTaken(users, resp'.email))
        => /\ resp'.status = 400
           /\ resp'.detail = "Email already exists"
           /\ users' = users
           /\ next_id' = next_id
           /\ assigned' = assigned]_vars

\* C3 case: a create was refused because a live record holds its email.
C3_Witness ==
    /\ resp.op = "create" /\ resp.status = 400
    /\ EmailTaken(before, resp.email)
    /\ users = before

\* C4: an update to an email that differs from the record's own and is held
\* by another live record fails with 400 "Email already exists" and leaves
\* the store unchanged, also when the payload carried a new name.
C4_DuplicateUpdateRejected ==
    [][(/\ resp'.op = "update"
        /\ resp'.id \in Live(users, next_id)
        /\ resp'.email # None
        /\ resp'.email # DictGet(users, resp'.id).email
        /\ EmailTaken(users, resp'.email))
        => /\ resp'.status = 400
           /\ resp'.detail = "Email already exists"
           /\ users' = users
           /\ next_id' = next_id]_vars

\* C4 case: an update carrying a new name and another record's email was
\* refused.
C4_Witness ==
    /\ resp.op = "update" /\ resp.status = 400
    /\ resp.name # None
    /\ resp.name # DictGet(before, resp.id).name
    /\ EmailTaken(before, resp.email)

\* C5: a create whose email no live record holds succeeds, and a get of the
\* returned id right after it returns the record create returned.
C5_CreateThenGet ==
    [][(resp'.op = "create" /\ ~EmailTaken(users, resp'.email))
        => /\ resp'.status = 201
           /\ resp'.user.name = resp'.name
           /\ resp'.user.email = resp'.email
           /\ get_user(users', next_id', resp'.user.id).status = 200
           /\ get_user(users', next_id', resp'.user.id).user = resp'.user]_vars

\* C5 case: a create succeeded while other records were live.
C5_Witness ==
    /\ resp.op = "create" /\ resp.status = 201
    /\ ~EmailTaken(before, resp.email)
    /\ Len(before) >= 1
    /\ get_user(users, next_id, resp.user.id).user = resp.user

\* C6: an id that was deleted is never live again: get, update and delete of
\* it answer 404 in every later state.
C6_DeletedStaysAbsent ==
    \A id \in deleted :
        /\ get_user(users, next_id, id).status = 404
        /\ delete_user(users, next_id, id).status = 404
        /\ \A name \in Names \cup {None}, email \in Emails \cup {None} :
               update_user(users, next_id, id, name, email).status = 404

\* C6 case: a record was deleted and a later create succeeded.
C6_Witness ==
    \E id \in deleted :
        /\ resp.op = "create" /\ resp.status = 201
        /\ resp.user.id > id

\* C7: list returns exactly the live records, in the order of their creation.
C7_ListInCreationOrder ==
    LET list == list_users(users, next_id).list
    IN  /\ [i \in 1..Len(list) |-> list[i].id]
             = SelectSeq(assigned, LAMBDA id : id \in Live(users, next_id))
        /\ \A i \in 1..Len(list) :
               list[i] = get_user(users, next_id, list[i].id).user

\* C7 case: after a delete, the first of several live records was updated.
C7_Witness ==
    /\ Len(users) >= 2
    /\ deleted # {}
    /\ resp.op = "update" /\ resp.status = 200
    /\ resp.id = users[1].key
    /\ users # before

\* C8: an update whose email is the record's current email never fails with
\* DuplicateEmail: it is answered 200.
C8_SelfMatchAllowed ==
    [][(/\ resp'.op = "update"
        /\ resp'.id \in Live(users, next_id)
        /\ resp'.email = DictGet(users, resp'.id).email)
        => resp'.status = 200]_vars

\* C8 case: a record was updated to the email it already had while another
\* record was live.
C8_Witness ==
    /\ resp.op = "update" /\ resp.status = 200
    /\ resp.id \in DictKeys(before)
    /\ resp.email = DictGet(before, resp.id).email
    /\ Len(before) >= 2

\* C9: an update with neither name nor email on a live record is answered 200
\* with the record as it was, and changes nothing in the store or the counter.
C9_EmptyUpdateNoOp ==
    [][(/\ resp'.op = "update"
        /\ resp'.id \in Live(users, next_id)
        /\ resp'.name = None
        /\ resp'.email = None)
        => /\ resp'.status = 200
           /\ resp'.user = DictGet(users, resp'.id)
           /\ users' = users
           /\ next_id' = next_id]_vars

\* C9 case: an empty update of a live record, not the last one created.
C9_Witness ==
    /\ resp.op = "update" /\ resp.status = 200
    /\ resp.name = None /\ resp.email = None
    /\ Len(before) >= 2
    /\ resp.id = before[1].key

\* C10: a successful update sets the supplied fields, keeps the others and
\* the id, returns the resulting record, and touches no other record and not
\* the id counter.
C10_UpdateEffect ==
    [][(resp'.op = "update" /\ resp'.status = 200)
        => LET old == DictGet(users, resp'.id)
               new == DictGet(users', resp'.id)
           IN  /\ new.name = (IF resp'.name # None THEN resp'.name ELSE old.name)
               /\ new.email = (IF resp'.email # None THEN resp'.email ELSE old.email)
               /\ new.id = resp'.id
               /\ resp'.user = new
               /\ DictKeys(users') = DictKeys(users)
               /\ \A id \in DictKeys(users) \ {resp'.id} :
                      DictGet(users', id) = DictGet(users, id)
               /\ next_id' = next_id]_vars

\* C10 case: an update supplying only one field changed a record while
\* another record was live.
C10_Witness ==
    /\ resp.op = "update" /\ resp.status = 200
    /\ (resp.name = None) # (resp.email = None)
    /\ users # before
    /\ Len(users) >= 2

\* C11: get, update and delete of an id that is not live answer 404 "User not
\* found" and change neither the store nor the id counter.
C11_NotFound ==
    [][(/\ resp'.op \in {"get", "update", "delete"}
        /\ resp'.id \notin Listed(users, next_id))
        => /\ resp'.status = 404
           /\ resp'.detail = "User not found"
           /\ users' = users
           /\ next_id' = next_id]_vars

\* C11 case: a delete of an id that was deleted before, other records live.
C11_Witness ==
    /\ resp.op = "delete" /\ resp.status = 404
    /\ resp.id \in deleted
    /\ Len(users) >= 1
    /\ users = before

\* C13: get and list change nothing: the store, with its records and their
\* order, and the id counter are the same after the call as before it.
C13_ReadOnly ==
    [][(resp'.op \in {"get", "list"})
        => /\ users' = users
           /\ next_id' = next_id]_vars

\* C13 case: a get found a record in a store of several.
C13_Witness ==
    /\ resp.op = "get" /\ resp.status = 200
    /\ Len(before) >= 2
    /\ users = before

\* C14: the ids of the successful creates are exactly 1, 2, 3, ...: the first
\* is 1 and each is the largest id assigned so far plus 1, whatever failed
\* creates and deletes came in between.
C14_IdsWithoutGaps ==
    /\ \A i \in 1..Len(assigned) : assigned[i] = i
    /\ next_id = Len(assigned) + 1

\* C14 case: the third create succeeded after a record had been deleted.
C14_Witness ==
    /\ resp.op = "create" /\ resp.status = 201
    /\ resp.user.id = 3
    /\ deleted # {}

\* C16: get succeeds exactly for the ids of the records list returns, returns
\* for each the record list contains, and list contains no id twice.
C16_GetAndListAgree ==
    LET list == list_users(users, next_id).list
    IN  /\ \A id \in 1..(MaxId + 1) :
               (get_user(users, next_id, id).status = 200)
                   <=> (\E i \in 1..Len(list) : list[i].id = id)
        /\ \A i \in 1..Len(list) :
               get_user(users, next_id, list[i].id).user = list[i]
        /\ \A i, j \in 1..Len(list) : list[i].id = list[j].id => i = j

\* C16 case: some ids live, one deleted, one never created, after an update.
C16_Witness ==
    /\ Len(users) >= 1
    /\ deleted # {}
    /\ next_id <= MaxId
    /\ resp.op = "update" /\ resp.status = 200 /\ users # before

\* C18: an update of an id that is not live answers 404, not 400, also when
\* its email is held by a live record.
C18_NotFoundBeforeDuplicate ==
    [][(/\ resp'.op = "update"
        /\ resp'.id \notin Listed(users, next_id)
        /\ resp'.email # None
        /\ EmailTaken(users, resp'.email))
        => /\ resp'.status = 404
           /\ resp'.detail = "User not found"]_vars

\* C18 case: an update of an absent id carried a live record's email.
C18_Witness ==
    /\ resp.op = "update" /\ resp.status = 404
    /\ resp.email # None
    /\ EmailTaken(before, resp.email)

\* C19: every key of users maps to a record carrying that key as its id, every
\* key lies in 1..next_id-1, next_id is at least 1 and never decreases.
C19_StoreWellFormed ==
    /\ [](/\ \A i \in 1..Len(users) :
                /\ users[i].val.id = users[i].key
                /\ users[i].key \in 1..(next_id - 1)
          /\ next_id >= 1)
    /\ [][next_id' >= next_id]_vars

\* C19 case: the counter has reached its bound with two records live and one
\* deleted.
C19_Witness ==
    /\ next_id = MaxId + 1
    /\ Len(users) >= 2
    /\ deleted # {}

\* C17: uniqueness is checked against live records only: an email that no live
\* record holds now, also one that a record gave up by delete or by update, is
\* accepted by a create and by an update of a live record.
C17_FreedEmailAccepted ==
    [][(/\ resp'.email # None
        /\ \A id \in Live(users, next_id) :
               get_user(users, next_id, id).user.email # resp'.email
        /\ \/ resp'.op = "create"
           \/ resp'.op = "update" /\ resp'.id \in Live(users, next_id))
        => /\ resp'.status = (IF resp'.op = "create" THEN 201 ELSE 200)
           /\ resp'.user.email = resp'.email
           /\ get_user(users', next_id', resp'.user.id).user = resp'.user]_vars

\* C17 case: a create was given an email that an earlier record gave up.
C17_Witness ==
    /\ resp.op = "create" /\ resp.status = 201
    /\ resp.email = freed
    /\ Len(users) >= 2

\* C12: a request that fails validation (create with a missing, empty or
\* over-long name or a missing or malformed email, update with an empty or
\* over-long name or a malformed email, any request with an id below 1) is
\* answered 422 without a handler being called, and changes neither the store
\* nor the id counter.
C12_InvalidRejected ==
    [][(\/ /\ http'.route = "POST /users"
           /\ \/ http'.name = None \/ Len(http'.name) = 0 \/ Len(http'.name) > 100
              \/ http'.email = None \/ http'.email = "not-an-email"
        \/ /\ http'.route = "PUT /users/{user_id}"
           /\ \/ http'.name # None /\ (Len(http'.name) = 0 \/ Len(http'.name) > 100)
              \/ http'.email = "not-an-email"
        \/ /\ http'.route \in {"GET /users/{user_id}", "PUT /users/{user_id}",
                               "DELETE /users/{user_id}"}
           /\ http'.id < 1)
        => /\ resp'.status = 422
           /\ resp'.op = "none"
           /\ users' = users
           /\ next_id' = next_id
           /\ assigned' = assigned
           /\ deleted' = deleted]_vars

\* C12 case: a create with an empty name and a free, well-formed email was
\* refused while records were live.
C12_Witness ==
    /\ http.route = "POST /users" /\ http.name = ""
    /\ http.email \in Emails /\ ~EmailTaken(users, http.email)
    /\ resp.status = 422
    /\ Len(users) >= 1
    /\ users = before

\* C15: create, update and delete are atomic also when requests overlap: no
\* two creates are given the same id, and no two requests have passed the
\* uniqueness check for the same email at the same time.
C15_Atomic ==
    /\ \A i, j \in 1..Len(assigned) : i # j => assigned[i] # assigned[j]
    /\ \A t1, t2 \in Threads :
           (t1 # t2 /\ threads[t1].checked # None)
               => threads[t1].checked # threads[t2].checked

====
